---------------------------- MODULE Spec2Model ----------------------------
(***************************************************************************)
(* A model of syamfp.hpp: the symbol registry, the tokenizer, the          *)
(* shunting-yard converter, the RPN compiler, the Syamfp handle and the    *)
(* unary functions it returns.                                             *)
(*                                                                         *)
(* A formula is a sequence of one-character strings.  A value of the       *)
(* numeric type is a term: a number, a named constant, or the application  *)
(* of a native behaviour to argument values (the native behaviours are     *)
(* left uninterpreted, so that the order of the arguments is observable).  *)
(***************************************************************************)
EXTENDS Integers, Sequences, FiniteSets, TLC

VARIABLES
    RESERVED_TOKEN,  \* Details::RESERVED_TOKEN, the process-wide registry
    formula,         \* Syamfp::formula
    table,           \* Syamfp::table
    vars,            \* Syamfp::vars
    crpn,            \* Syamfp::crpn
    closure,         \* the function object last returned by ret_func
    op,              \* the operation that ran last
    ret,             \* what it returned
    input,           \* pipeline: the formula given to make_rpn
    stage,           \* pipeline: position in make_rpn -> compile_RPN -> run
    toks,            \* pipeline: the result of devide_to_tokens
    rpn,             \* pipeline: the result of make_rpn
    comp,            \* pipeline: the result of compile_RPN
    pc,              \* pipeline: number of compiled operations executed
    stack,           \* pipeline: the working stack of the running function
    calls            \* the calls of returned functions that are in progress

vars_handle == <<formula, table, vars, crpn, closure, op, ret>>
vars_pipe   == <<input, stage, toks, rpn, comp, pc, stack>>
vars_calls  == <<calls>>
vars_all    == <<RESERVED_TOKEN, vars_handle, vars_pipe, vars_calls>>

----------------------------------------------------------------------------
(* Values of the numeric type *)

Num(m, e) == [k |-> "num", mant |-> m, exp |-> e]
ZERO == Num(0, 0)
NamedConst(n) == [k |-> "const", name |-> n]
\* what a read of an uninitialised ValueType yields
Indeterminate == [k |-> "indeterminate"]
\* the result of calling native behaviour f on the argument vector args
Apply(f, args) == [k |-> "app", f |-> f, args |-> args]

----------------------------------------------------------------------------
(* Tokens and the registry *)

Tok(s, t, n, v, f) == [str |-> s, type |-> t, arg_num |-> n, value |-> v, func |-> f]

OperatorEntries ==
    { <<"+", Tok("+", "Operator", 2, ZERO, "add")>>,
      <<"-", Tok("-", "Operator", 2, ZERO, "sub")>>,
      <<"*", Tok("*", "Operator", 2, ZERO, "mul")>>,
      <<"/", Tok("/", "Operator", 2, ZERO, "div")>>,
      <<"^", Tok("/", "Operator", 2, ZERO, "powop")>>,
      <<"(", Tok("(", "LParen", 0, ZERO, "nullptr")>>,
      <<")", Tok(")", "RParen", 0, ZERO, "nullptr")>>,
      <<",", Tok(",", "Comma", 0, ZERO, "nullptr")>> }

ConstantNames ==
    { "pi", "inv_pi", "inv_sqrtpi", "e", "sqrt2", "sqrt3", "ln2", "ln10",
      "log2e", "log10e", "egamma", "phi" }

Func1Names ==
    { "sin", "cos", "tan", "asin", "acos", "atan", "sinh", "cosh", "tanh",
      "asinh", "acosh", "atanh", "exp", "log", "log10", "ln", "sqrt" }

\* "ln" and "log" both call std::log, through two distinct lambdas
ReservedEntries ==
    OperatorEntries
      \cup { <<n, Tok(n, "Constant", 0, NamedConst(n), "nullptr")>> : n \in ConstantNames }
      \cup { <<n, Tok(n, "Func1", 1, ZERO, n)>> : n \in Func1Names }
      \cup { <<"pow", Tok("pow", "Func2", 2, ZERO, "pow")>> }

BuiltinRegistry ==
    [ key \in { p[1] : p \in ReservedEntries } |->
        (CHOOSE p \in ReservedEntries : p[1] = key)[2] ]

LPAREN == BuiltinRegistry["("]

----------------------------------------------------------------------------
(* Strings as character sequences *)

RECURSIVE Str(_)
Str(cs) == IF cs = <<>> THEN "" ELSE Head(cs) \o Str(Tail(cs))

IsDigit(c) == c \in {"0", "1", "2", "3", "4", "5", "6", "7", "8", "9"}
DigitVal(c) ==
    CASE c = "0" -> 0 [] c = "1" -> 1 [] c = "2" -> 2 [] c = "3" -> 3
      [] c = "4" -> 4 [] c = "5" -> 5 [] c = "6" -> 6 [] c = "7" -> 7
      [] c = "8" -> 8 [] c = "9" -> 9
IsSpace(c) == c \in {" ", "\t", "\n", "\r", "\f"}

\* the index after an optional sign at i
SkipSign(cs, i) == IF i <= Len(cs) /\ cs[i] \in {"+", "-"} THEN i + 1 ELSE i

\* the index after the longest run of digits starting at i
RECURSIVE SkipDigits(_, _)
SkipDigits(cs, i) ==
    IF i <= Len(cs) /\ IsDigit(cs[i]) THEN SkipDigits(cs, i + 1) ELSE i

\* the index after an optional (\.\d+) at i
SkipFrac(cs, i) ==
    IF i <= Len(cs) /\ cs[i] = "." /\ SkipDigits(cs, i + 1) > i + 1
    THEN SkipDigits(cs, i + 1) ELSE i

\* the index after an optional ([eE][+-]?\d+) at i
SkipExp(cs, i) ==
    IF i <= Len(cs) /\ cs[i] \in {"e", "E"}
         /\ SkipDigits(cs, SkipSign(cs, i + 1)) > SkipSign(cs, i + 1)
    THEN SkipDigits(cs, SkipSign(cs, i + 1)) ELSE i

\* ^[+-]?\d+(\.\d+)?([eE][+-]?\d+)?$
is_real(cs) ==
    LET a == SkipSign(cs, 1)
        b == SkipDigits(cs, a)
    IN  b > a /\ SkipExp(cs, SkipFrac(cs, b)) = Len(cs) + 1

\* ^[+-]?\d*(\.\d+)?([eE][+-]?\d+)?i$
is_imaginary(cs) ==
    LET b == SkipDigits(cs, SkipSign(cs, 1))
        d == SkipExp(cs, SkipFrac(cs, b))
    IN  d = Len(cs) /\ cs[d] = "i"

\* the natural number written by the digits cs[i..j-1], after the digits acc
RECURSIVE DigitsVal(_, _, _, _)
DigitsVal(cs, i, j, acc) ==
    IF i >= j THEN acc ELSE DigitsVal(cs, i + 1, j, 10 * acc + DigitVal(cs[i]))

RECURSIVE Normalise(_, _)
Normalise(m, e) ==
    IF m = 0 THEN Num(0, 0)
    ELSE IF m % 10 = 0 THEN Normalise(m \div 10, e + 1)
    ELSE Num(m, e)

\* std::from_chars on cs: the number the longest numeric prefix writes; no
\* leading '+' is accepted, and without a match the output is left unwritten
from_chars(cs) ==
    LET neg == Len(cs) >= 1 /\ cs[1] = "-"
        a   == IF neg THEN 2 ELSE 1
        b   == SkipDigits(cs, a)
        c   == IF b <= Len(cs) /\ cs[b] = "." THEN SkipDigits(cs, b + 1) ELSE b
        fr  == IF c > b THEN c - (b + 1) ELSE 0
        m   == DigitsVal(cs, b + 1, c, DigitsVal(cs, a, b, 0))
        d   == SkipExp(cs, c)
        es  == IF d > c THEN SkipSign(cs, c + 1) ELSE c
        ev  == IF d > c
               THEN (IF cs[c + 1] = "-" THEN -1 ELSE 1) * DigitsVal(cs, es, d, 0)
               ELSE 0
        sg  == IF neg THEN -1 ELSE 1
    IN  IF (b - a) + fr = 0 THEN Indeterminate
        ELSE Normalise(sg * m, ev - fr)

\* the constructor as it would be if only the built-in entries were looked up
Token_BuiltinOnly(cs, R) ==
    LET s == Str(cs) IN
    IF s \in DOMAIN BuiltinRegistry
    THEN Tok(s, BuiltinRegistry[s].type, BuiltinRegistry[s].arg_num,
             BuiltinRegistry[s].value, BuiltinRegistry[s].func)
    ELSE Tok(s, "Variable", 0, ZERO, "nullptr")

\* Token<Type>::Token(const std::string&), with the registry R
Token(cs, R) ==
    LET s == Str(cs) IN
    IF s \in DOMAIN R
    THEN Tok(s, R[s].type, R[s].arg_num, R[s].value, R[s].func)
    ELSE IF is_real(cs) THEN Tok(s, "Real", 0, from_chars(cs), "nullptr")
    ELSE IF is_imaginary(cs)
         THEN Tok(s, "Imaginary", 0,
                  [k |-> "imag",
                   coef |-> IF Len(cs) = 1 THEN Num(1, 0)
                            ELSE from_chars(SubSeq(cs, 1, Len(cs) - 1))],
                  "nullptr")
    ELSE Tok(s, "Variable", 0, ZERO, "nullptr")

----------------------------------------------------------------------------
(* The tokenizer *)

\* the lambda as it would be if it tested for the type Operator alone
is_operator_OperatorOnly(cs, R) ==
    Str(cs) \in DOMAIN R /\ R[Str(cs)].type = "Operator"

\* the lambda is_operator of devide_to_tokens
is_operator(cs, R) ==
    Str(cs) \in DOMAIN R
      /\ R[Str(cs)].type \in {"Operator", "LParen", "RParen", "Comma"}

\* The loop of devide_to_tokens from character i on.  The string_view str is
\* the n characters of f that start at index s (n = 0: empty).
RECURSIVE ScanFrom(_, _, _, _, _, _)
ScanFrom(f, i, s, n, tokens, R) ==
    LET view == SubSeq(f, s, s + n - 1) IN
    IF i > Len(f)
    THEN IF n # 0 THEN Append(tokens, Token(view, R)) ELSE tokens
    ELSE IF IsSpace(f[i])
         THEN IF n # 0
              THEN ScanFrom(f, i + 1, i + 1, 0, Append(tokens, Token(view, R)), R)
              ELSE ScanFrom(f, i + 1, i + 1, 0, tokens, R)
    ELSE IF n = 0
         THEN ScanFrom(f, i + 1, i, 1, tokens, R)
    ELSE IF is_operator(SubSeq(f, s, s + n), R)
         THEN ScanFrom(f, i + 1, s, n + 1, tokens, R)
    ELSE IF is_operator(view, R) \/ is_operator(<<f[i]>>, R)
         THEN ScanFrom(f, i + 1, i, 1, Append(tokens, Token(view, R)), R)
    ELSE ScanFrom(f, i + 1, s, n + 1, tokens, R)

devide_to_tokens(f, R) == ScanFrom(f, 1, 1, 0, <<>>, R)

----------------------------------------------------------------------------
(* The shunting-yard converter.  A stack is a sequence whose back is its     *)
(* last element.                                                            *)

LEFT_ASSOC_LIST == [o \in {"+", "-", "*", "/", "^"} |-> o # "^"]
is_left_assoc(o) == LEFT_ASSOC_LIST[o]

PRECED == [o \in {"+", "-", "*", "/", "^"} |->
             IF o \in {"+", "-"} THEN 0 ELSE IF o \in {"*", "/"} THEN 1 ELSE 2]
ret_preced(o) == PRECED[o]

Back(st) == st[Len(st)]
PopBack(st) == SubSeq(st, 1, Len(st) - 1)

has_LParen(st) == \E i \in 1..Len(st) : st[i] = LPAREN

\* the loop of case_of_RParen: pop and emit until a LParen has been popped
RECURSIVE PopToLParen(_, _)
PopToLParen(out, st) ==
    IF Back(st).type = "LParen"
    THEN [rpn |-> out, stack |-> PopBack(st)]
    ELSE PopToLParen(Append(out, Back(st)), PopBack(st))

\* whether case_of_RParen also emits the token now on top of the stack
EmitsAfterRParen(t) == t.func # "nullptr"

\* the end of case_of_RParen, with p the output and the stack after the loop
AfterLParen(p) ==
    IF p.stack = <<>> THEN [ok |-> TRUE, rpn |-> p.rpn, stack |-> p.stack]
    ELSE IF EmitsAfterRParen(Back(p.stack))
         THEN [ok |-> TRUE, rpn |-> Append(p.rpn, Back(p.stack)),
               stack |-> PopBack(p.stack)]
         ELSE [ok |-> TRUE, rpn |-> p.rpn, stack |-> p.stack]

case_of_RParen(out, st) ==
    IF ~has_LParen(st) THEN [ok |-> FALSE, rpn |-> out, stack |-> st]
    ELSE AfterLParen(PopToLParen(out, st))

\* the loop of case_of_Comma: pop and emit down to the LParen, which stays
RECURSIVE PopUntilLParen(_, _)
PopUntilLParen(out, st) ==
    IF Back(st) = LPAREN
    THEN [ok |-> TRUE, rpn |-> out, stack |-> st]
    ELSE PopUntilLParen(Append(out, Back(st)), PopBack(st))

case_of_Comma(out, st) ==
    IF ~has_LParen(st) THEN [ok |-> FALSE, rpn |-> out, stack |-> st]
    ELSE PopUntilLParen(out, st)

\* the comparison as it would be with every operator taken as left-associative
StopsAt_AllLeftAssoc(token, poped) ==
    ret_preced(token.str) > ret_preced(poped.str)

\* whether the operator token leaves the operator poped on the stack
StopsAt(token, poped) ==
    IF is_left_assoc(token.str)
    THEN ret_preced(token.str) > ret_preced(poped.str)
    ELSE ret_preced(token.str) >= ret_preced(poped.str)

\* the while loop of case_of_Operator and the push that follows it
RECURSIVE PopOperators(_, _, _)
PopOperators(out, st, token) ==
    IF st = <<>> \/ Back(st).type # "Operator" \/ StopsAt(token, Back(st))
    THEN [rpn |-> out, stack |-> Append(st, token)]
    ELSE PopOperators(Append(out, Back(st)), PopBack(st), token)

case_of_Operator(out, st, token, is_prev_token_operator, R) ==
    IF is_prev_token_operator /\ token.str = "+"
    THEN [rpn |-> out, stack |-> st]
    ELSE IF is_prev_token_operator /\ token.str = "-"
         THEN PopOperators(Append(out, Token(<<"-", "1">>, R)), st, Token(<<"*">>, R))
         ELSE PopOperators(out, st, token)

BAD_RPNs == <<>>

\* is_prev_token_operator after a token of type ty has been handled
PrevAfter(ty) == ty \in {"LParen", "Operator"}

\* the end of make_rpn as it would be without the test for a left parenthesis
RECURSIVE Drain_NoParenTest(_, _)
Drain_NoParenTest(out, st) ==
    IF st = <<>> THEN out
    ELSE Drain_NoParenTest(Append(out, Back(st)), PopBack(st))

\* the end of make_rpn: push the remaining operators of the stack
RECURSIVE Drain(_, _)
Drain(out, st) ==
    IF st = <<>> THEN out
    ELSE IF has_LParen(st) THEN BAD_RPNs
    ELSE Drain(Append(out, Back(st)), PopBack(st))

\* the switch of make_rpn on the type of the token
Switch(token, out, st, prev, R) ==
    CASE token.type \in {"Variable", "Constant", "Real", "Imaginary"} ->
           [ok |-> TRUE, rpn |-> Append(out, token), stack |-> st]
      [] token.type \in {"Func1", "Func2", "Func3", "LParen"} ->
           [ok |-> TRUE, rpn |-> out, stack |-> Append(st, token)]
      [] token.type = "RParen" -> case_of_RParen(out, st)
      [] token.type = "Comma" -> case_of_Comma(out, st)
      [] token.type = "Operator" ->
           [ok |-> TRUE] @@ case_of_Operator(out, st, token, prev, R)

\* The token loop of make_rpn: Convert takes the front token, Continue tests
\* retval (r is what the switch left) and goes on with the other tokens.
RECURSIVE Convert(_, _, _, _, _), Continue(_, _, _)
Continue(tokens, r, R) ==
    IF ~r.ok THEN BAD_RPNs
    ELSE Convert(Tail(tokens), r.rpn, r.stack, PrevAfter(Head(tokens).type), R)

Convert(tokens, out, st, prev, R) ==
    IF tokens = <<>> THEN Drain(out, st)
    ELSE Continue(tokens, Switch(Head(tokens), out, st, prev, R), R)

make_rpn(f, R) == Convert(devide_to_tokens(f, R), <<>>, <<>>, TRUE, R)

----------------------------------------------------------------------------
(* The RPN compiler.  A compiled operation is the closure compile_RPN       *)
(* builds for one token: its kind and the token it captured.                *)

CompiledFunc(kind, token) == [kind |-> kind, token |-> token]

\* the check as it would be with the comparison off by one
MissingArgument_OffByOne(cnt, token) == cnt - token.arg_num < -1

\* the check made after var_cnt -= token.arg_num
MissingArgument(cnt, token) == cnt - token.arg_num < 0

\* the check made after the last token
WrongFinalCount(cnt) == cnt # 1

\* The token loop of compile_RPN from token i on.  var_list is the caller's
\* set, written through the reference: it holds what was inserted so far
\* also when the function throws (ok = FALSE).  cnts records var_cnt after
\* each token.
RECURSIVE CompileFrom(_, _, _, _, _, _)
CompileFrom(r, i, cnt, ops, var_list, cnts) ==
    IF i > Len(r)
    THEN [ok |-> ~WrongFinalCount(cnt), crpn |-> ops, vars |-> var_list, cnts |-> cnts]
    ELSE LET token == r[i] IN
         IF token.type = "Variable"
         THEN CompileFrom(r, i + 1, cnt + 1,
                          Append(ops, CompiledFunc("push_variable", token)),
                          var_list \cup {token.str}, Append(cnts, cnt + 1))
         ELSE IF token.type \in {"Constant", "Real", "Imaginary"}
         THEN CompileFrom(r, i + 1, cnt + 1,
                          Append(ops, CompiledFunc("push_value", token)),
                          var_list, Append(cnts, cnt + 1))
         ELSE IF token.type \in {"Operator", "Func1", "Func2", "Func3"}
         THEN IF MissingArgument(cnt, token)
              THEN [ok |-> FALSE, crpn |-> ops, vars |-> var_list, cnts |-> cnts]
              ELSE CompileFrom(r, i + 1, cnt - token.arg_num + 1,
                               Append(ops, CompiledFunc("apply", token)),
                               var_list, Append(cnts, cnt - token.arg_num + 1))
         ELSE CompileFrom(r, i + 1, cnt + 1, ops, var_list, cnts)

\* var_list.clear() and the loop
compile_RPN(r) == CompileFrom(r, 1, 0, <<>>, {}, <<>>)

----------------------------------------------------------------------------
(* Executing a compiled plan *)

EmptyTable == [n \in {} |-> ZERO]
Contains(t, name) == name \in DOMAIN t

\* VariableTable::operator+= : insert_variable assigns variables[name]
PlusEq(t, name, val) ==
    [n \in DOMAIN t \cup {name} |-> IF n = name THEN val ELSE t[n]]

\* the argument vector as it would be if it were filled in the order of the
\* pops, args[0] first
ArgsOf_PopOrder(st, arity) == [n \in 1..arity |-> st[Len(st) - n + 1]]

\* the argument vector an apply operation fills from the stack: args[n] for
\* n = arity - 1 down to 0 is the back of the stack, popped
ArgsOf(st, arity) == SubSeq(st, Len(st) - arity + 1, Len(st))

\* One compiled operation on the stack st with the table t.  status is "ok",
\* "out_of_range" (table.at threw) or "underflow" (back() of an empty deque).
Exec(f, st, t) ==
    CASE f.kind = "push_variable" ->
           IF Contains(t, f.token.str)
           THEN [status |-> "ok", stack |-> Append(st, t[f.token.str])]
           ELSE [status |-> "out_of_range", stack |-> st]
      [] f.kind = "push_value" ->
           [status |-> "ok", stack |-> Append(st, f.token.value)]
      [] f.kind = "apply" ->
           IF Len(st) < f.token.arg_num
           THEN [status |-> "underflow", stack |-> st]
           ELSE [status |-> "ok",
                 stack |-> Append(SubSeq(st, 1, Len(st) - f.token.arg_num),
                                  Apply(f.token.func, ArgsOf(st, f.token.arg_num)))]

\* the loop "for func : CRPN" of the closure, from operation i on
RECURSIVE RunFrom(_, _, _, _), RunOn(_, _, _, _)
RunOn(ops, i, r, t) ==
    IF r.status # "ok" THEN r ELSE RunFrom(ops, i + 1, r.stack, t)

RunFrom(ops, i, st, t) ==
    IF i > Len(ops) THEN [status |-> "ok", stack |-> st]
    ELSE RunOn(ops, i, CHOOSE r \in {Exec(ops[i], st, t)} : TRUE, t)

Value(v) == [kind |-> "value", v |-> v]
Throws(what) == [kind |-> "throw", what |-> what]
\* what undefined behaviour can do to a call: any value, or no return at all
Undefined == { Value(Indeterminate), [kind |-> "crash"] }

\* what the caller gets when the loop ended as r: the exception of table.at,
\* or stack.front()
Outcomes(r) ==
    IF r.status = "out_of_range" THEN { Throws("out_of_range") }
    ELSE IF r.status = "underflow" \/ r.stack = <<>> THEN Undefined
    ELSE { Value(r.stack[1]) }

\* the outcomes as they would be if the closure held a reference to the
\* handle's table instead of its own copy
CallOutcomes_HandleTable(c, a) ==
    Outcomes(RunFrom(c.CRPN, 1, <<>>, PlusEq(table, c.variable_string, a)))

\* The outcomes of calling the closure c with the argument a: the loop runs
\* once, and r is how it ended.
CallOutcomes(c, a) ==
    UNION { Outcomes(r) :
              r \in {RunFrom(c.CRPN, 1, <<>>, PlusEq(c.Table, c.variable_string, a))} }

----------------------------------------------------------------------------
(* The Syamfp handle *)

EINVAL == 22

Returned(code) == [kind |-> "int", code |-> code]
Failed(r) == r.kind = "int" /\ r.code < 0

\* the result of the compile step of parse: none for the failure sentinel
Compiled(r) ==
    IF r = BAD_RPNs THEN [bad |-> TRUE] ELSE [bad |-> FALSE] @@ compile_RPN(r)

\* the members as they would be with the assignments made before the compile
\* step is known to have succeeded
Stored_BeforeCheck(f, h, c) ==
    IF c.bad
    THEN [formula |-> h.formula, vars |-> h.vars, crpn |-> h.crpn, code |-> -EINVAL]
    ELSE [formula |-> f, vars |-> c.vars, crpn |-> c.crpn,
          code |-> IF c.ok THEN 0 ELSE -EINVAL]

\* the members as they would be if an empty postfix sequence were taken as the
\* plan of an empty formula
Stored_EmptyAccepted(f, h, c) ==
    IF c.bad
    THEN [formula |-> f, vars |-> {}, crpn |-> <<>>, code |-> 0]
    ELSE IF c.ok
         THEN [formula |-> f, vars |-> c.vars, crpn |-> c.crpn, code |-> 0]
         ELSE [formula |-> h.formula, vars |-> c.vars, crpn |-> h.crpn, code |-> -EINVAL]

\* the members as they would be if compile_RPN added to the names already in
\* vars
Stored_KeepsOldVars(f, h, c) ==
    IF c.bad
    THEN [formula |-> h.formula, vars |-> h.vars, crpn |-> h.crpn, code |-> -EINVAL]
    ELSE IF c.ok
         THEN [formula |-> f, vars |-> h.vars \cup c.vars, crpn |-> c.crpn, code |-> 0]
         ELSE [formula |-> h.formula, vars |-> h.vars \cup c.vars, crpn |-> h.crpn,
               code |-> -EINVAL]

\* The members and the return value of parse(f) on a handle with the members
\* h, c being the result of the compile step.  compile_RPN gets the member
\* vars by reference, so vars holds what compile_RPN left in it whether or not
\* it threw.
Stored(f, h, c) ==
    IF c.bad
    THEN [formula |-> h.formula, vars |-> h.vars, crpn |-> h.crpn, code |-> -EINVAL]
    ELSE IF c.ok
         THEN [formula |-> f, vars |-> c.vars, crpn |-> c.crpn, code |-> 0]
         ELSE [formula |-> h.formula, vars |-> c.vars, crpn |-> h.crpn, code |-> -EINVAL]

\* Syamfp::parse(formula) with the registry R
ParseState(f, h, R) == Stored(f, h, Compiled(make_rpn(f, R)))

Handle == [formula |-> formula, vars |-> vars, crpn |-> crpn]

\* the check of ret_func: some variable of vars is undetermined
Undetermined(vs, t, variable_string) ==
    \E str \in vs : ~Contains(t, str) /\ str # variable_string

NoClosure == [made |-> FALSE]
Closure(t, ops, variable_string) ==
    [made |-> TRUE, Table |-> t, CRPN |-> ops, variable_string |-> variable_string]

\* add_custom_function: unordered_map::insert keeps an entry already present
Registered(R, name, type, arg_num, lambda) ==
    IF name \in DOMAIN R THEN R
    ELSE [n \in DOMAIN R \cup {name} |->
            IF n = name THEN Tok(name, type, arg_num, ZERO, lambda) ELSE R[n]]

----------------------------------------------------------------------------
(* The calls made on the handle *)

\* pieces joined by single spaces
RECURSIVE Join(_)
Join(pieces) ==
    IF pieces = <<>> THEN <<>>
    ELSE IF Len(pieces) = 1 THEN pieces[1]
    ELSE pieces[1] \o <<" ">> \o Join(Tail(pieces))

F_x        == <<"x">>
F_sum      == <<"x", " ", "+", " ", "y">>
F_g        == <<"g", "(", "x", ",", "y", ")">>
F_open     == <<"(", "x">>
F_dangling == <<"y", " ", "+">>
F_empty    == <<>>
F_blank    == <<" ", "\t">>
F_plus     == <<"+">>
F_unit     == <<"(", ")">>
\* x * pi + sin(x)
F_mixed    == <<"x", "*", "p", "i", "+", "s", "i", "n", "(", "x", ")">>

\* g(pow(x,y),g(y,x))*2
F_nested   ==
    <<"g", "(", "p", "o", "w", "(", "x", ",", "y", ")", ",",
      "g", "(", "y", ",", "x", ")", ")", "*", "2">>

\* x + y * 2
F_vars     == <<"x", " ", "+", " ", "y", " ", "*", " ", "2">>

Formulas == { F_x, F_sum, F_g, F_open, F_dangling, F_empty }

One == Num(1, 0)
Two == Num(2, 0)
Tables == { EmptyTable, "y" :> One, ("x" :> One) @@ ("y" :> Two) }
Arguments == { One, Two }
FreeVariables == { "x", "y" }

\* the registrations tried: a new name, the same name again, a built-in
CustomFunctions ==
    { [name |-> "g",   type |-> "Func2", arg_num |-> 2, lambda |-> "user_g2"],
      [name |-> "g",   type |-> "Func1", arg_num |-> 1, lambda |-> "user_g1"],
      [name |-> "pow", type |-> "Func1", arg_num |-> 1, lambda |-> "user_pow"] }

\* parse(formula)
Parse(f) ==
    \E n \in {ParseState(f, Handle, RESERVED_TOKEN)} :
    /\ formula' = n.formula
    /\ vars' = n.vars
    /\ crpn' = n.crpn
    /\ op' = [name |-> "parse", f |-> f]
    /\ ret' = Returned(n.code)
    /\ UNCHANGED <<RESERVED_TOKEN, table, closure, vars_pipe, vars_calls>>

\* parse(formula, table)
ParseTable(f, t) ==
    \E n \in {ParseState(f, Handle, RESERVED_TOKEN)} :
    /\ table' = t
    /\ formula' = n.formula
    /\ vars' = n.vars
    /\ crpn' = n.crpn
    /\ op' = [name |-> "parse_table", f |-> f]
    /\ ret' = Returned(n.code)
    /\ UNCHANGED <<RESERVED_TOKEN, closure, vars_pipe, vars_calls>>

\* regist(table)
Regist(t) ==
    /\ table' = t
    /\ op' = [name |-> "regist"]
    /\ ret' = [kind |-> "void"]
    /\ UNCHANGED <<RESERVED_TOKEN, formula, vars, crpn, closure, vars_pipe, vars_calls>>

\* ret_func(variable_string)
RetFunc(v) ==
    /\ op' = [name |-> "ret_func"]
    /\ IF Undetermined(vars, table, v)
       THEN ret' = Throws("runtime_error") /\ closure' = closure
       ELSE ret' = [kind |-> "function"] /\ closure' = Closure(table, crpn, v)
    /\ UNCHANGED <<RESERVED_TOKEN, formula, table, vars, crpn, vars_pipe, vars_calls>>

\* a call of the function ret_func returned
Call(a) ==
    /\ closure.made
    /\ op' = [name |-> "call"]
    /\ ret' \in CallOutcomes(closure, a)
    /\ UNCHANGED <<RESERVED_TOKEN, formula, table, vars, crpn, closure, vars_pipe, vars_calls>>

\* add_custom_function(name, type, arg_num, lambda)
AddCustomFunction(c) ==
    /\ RESERVED_TOKEN' = Registered(RESERVED_TOKEN, c.name, c.type, c.arg_num, c.lambda)
    /\ op' = [name |-> "add_custom_function", entry |-> c]
    /\ ret' = [kind |-> "void"]
    /\ UNCHANGED <<formula, table, vars, crpn, closure, vars_pipe, vars_calls>>

\* the callers of a returned function
Threads == {1, 2}

Idle == [state |-> "idle"]

\* no call is in progress
NoCalls == [fn |-> NoClosure, th |-> [t \in Threads |-> Idle]]

PipeIdle ==
    /\ input = <<>>
    /\ stage = "idle"
    /\ toks = <<>>
    /\ rpn = <<>>
    /\ comp = [ok |-> FALSE, crpn |-> <<>>, vars |-> {}, cnts |-> <<>>]
    /\ pc = 0
    /\ stack = <<>>

\* Syamfp() and Syamfp(formula, table): no parse is made
Init ==
    /\ RESERVED_TOKEN = BuiltinRegistry
    /\ \E h \in { <<F_empty, EmptyTable>>, <<F_x, "y" :> One>> } :
          formula = h[1] /\ table = h[2]
    /\ vars = {}
    /\ crpn = <<>>
    /\ closure = NoClosure
    /\ op = [name |-> "construct"]
    /\ ret = [kind |-> "void"]
    /\ PipeIdle
    /\ calls = NoCalls

Next ==
    \/ \E f \in Formulas : Parse(f)
    \/ \E f \in Formulas, t \in Tables : ParseTable(f, t)
    \/ \E t \in Tables : Regist(t)
    \/ \E v \in FreeVariables : RetFunc(v)
    \/ \E a \in Arguments : Call(a)
    \/ \E c \in CustomFunctions : AddCustomFunction(c)

Spec == Init /\ [][Next]_vars_all

----------------------------------------------------------------------------
(* Sequences of parse and add_custom_function calls on one handle, over a   *)
(* larger set of formulas.                                                  *)

ParseFormulas ==
    Formulas \cup { F_blank, F_plus, F_unit, F_mixed, F_nested, F_vars }

ParseTables == { EmptyTable, "y" :> One }

NextParse ==
    \/ \E f \in ParseFormulas : Parse(f)
    \/ \E f \in ParseFormulas, t \in ParseTables : ParseTable(f, t)
    \/ \E c \in CustomFunctions : AddCustomFunction(c)

SpecParse == Init /\ [][NextParse]_vars_all

----------------------------------------------------------------------------
(* Calls of one returned function made by two callers at a time, one        *)
(* compiled operation per step, while the handle goes on being used.  Each  *)
(* call has the locals of the lambda: its stack and its table.              *)

CallFormulas == { F_x, F_sum }
CallTables == { "y" :> One, ("x" :> One) @@ ("y" :> Two) }
CallVariables == { "x", "y" }
ArgumentsOf(t) == IF t = 1 THEN { One } ELSE Arguments

Running(t) == calls.th[t].state = "running"

\* the locals after "Stack stack; VariableTable table(Table); table += ..."
Entered(c, a) ==
    [state |-> "running", arg |-> a, pc |-> 0, stack |-> <<>>,
     table |-> PlusEq(c.Table, c.variable_string, a)]

Left(a, result) == [state |-> "returned", arg |-> a, result |-> result]

\* caller t calls the function: the one being called by the other caller if
\* there is one, else the function ret_func returned last
BeginCall(t, a) ==
    /\ ~Running(t)
    /\ \E c \in {IF \E u \in Threads : Running(u) THEN calls.fn ELSE closure} :
         /\ c.made
         /\ calls' = [fn |-> c, th |-> [calls.th EXCEPT ![t] = Entered(c, a)]]
    /\ UNCHANGED <<RESERVED_TOKEN, vars_handle, vars_pipe>>

\* one func(stack, table) of the loop of call t; an exception ends the call
StepCall(t) ==
    /\ Running(t)
    /\ calls.th[t].pc < Len(calls.fn.CRPN)
    /\ \E r \in {Exec(calls.fn.CRPN[calls.th[t].pc + 1], calls.th[t].stack,
                      calls.th[t].table)} :
         IF r.status = "ok"
         THEN calls' = [calls EXCEPT !.th[t].pc = @ + 1, !.th[t].stack = r.stack]
         ELSE \E result \in Outcomes(r) :
                calls' = [calls EXCEPT !.th[t] = Left(calls.th[t].arg, result)]
    /\ UNCHANGED <<RESERVED_TOKEN, vars_handle, vars_pipe>>

\* return stack.front() of call t
EndCall(t) ==
    /\ Running(t)
    /\ calls.th[t].pc = Len(calls.fn.CRPN)
    /\ \E result \in Outcomes([status |-> "ok", stack |-> calls.th[t].stack]) :
         calls' = [calls EXCEPT !.th[t] = Left(calls.th[t].arg, result)]
    /\ UNCHANGED <<RESERVED_TOKEN, vars_handle, vars_pipe>>

NextCalls ==
    \/ \E f \in CallFormulas : Parse(f)
    \/ \E t \in CallTables : Regist(t)
    \/ \E v \in CallVariables : RetFunc(v)
    \/ \E t \in Threads : \E a \in ArgumentsOf(t) : BeginCall(t, a)
    \/ \E t \in Threads : StepCall(t)
    \/ \E t \in Threads : EndCall(t)

SpecCalls == Init /\ [][NextCalls]_vars_all

----------------------------------------------------------------------------
(* The pipeline make_rpn -> compile_RPN -> run, one formula at a time.  An   *)
(* input is a sequence of pieces, and the formula is the pieces joined by   *)
(* single spaces.                                                           *)

MaxOperands == 4
MaxLen == 4
MaxRpn == 3

L_sin == <<"s", "i", "n">>
L_pow == <<"p", "o", "w">>

BinOps == { <<"+">>, <<"-">>, <<"*">>, <<"/">>, <<"^">> }
OperandNames == << <<"a">>, <<"b">>, <<"c">>, <<"d">>, <<"2">>, <<"x">> >>
Operand(i) == OperandNames[((i - 1) % Len(OperandNames)) + 1]

\* operand (operator operand)*, with the operators o[1], o[2], ...
Alternating(n, o) ==
    [i \in 1..(2 * n - 1) |-> IF i % 2 = 1 THEN Operand((i + 1) \div 2) ELSE o[i \div 2]]

AlternatingInputs ==
    UNION { { Alternating(n, o) : o \in [1..(n - 1) -> BinOps] } : n \in 1..MaxOperands }

\* A op ( B op C ) op D
GroupInputs ==
    { << <<"a">>, o[1], <<"(">>, <<"b">>, o[2], <<"c">>, <<")">>, o[3], <<"d">> >> :
        o \in [1..3 -> BinOps] }

\* A op - B
UnaryInputs == { << <<"a">>, o, <<"-">>, <<"b">> >> : o \in BinOps }

Lexemes ==
    { <<"x">>, <<"1">>, <<"+">>, <<"-">>, <<"*">>, <<"(">>, <<")">>, <<",">>,
      L_sin, L_pow }

LexemeInputs == UNION { [1..n -> Lexemes] : n \in 0..MaxLen }

\* formulas written out, each one piece
\* 3 + 4 * 2
E_add_mul == << <<"3", " ", "+", " ", "4", " ", "*", " ", "2">> >>
\* 2 ^ 3 ^ 2
E_pow_pow == << <<"2", " ", "^", " ", "3", " ", "^", " ", "2">> >>
\* -3 + 5
E_neg_add == << <<"-", "3", " ", "+", " ", "5">> >>
\* -sin(0)
E_neg_sin == << <<"-", "s", "i", "n", "(", "0", ")">> >>
\* (1 + 2
E_open == << <<"(", "1", " ", "+", " ", "2">> >>
\* 1 + 2)
E_close == << <<"1", " ", "+", " ", "2", ")">> >>
\* ,
E_comma == << <<",">> >>
\* pow(1)
E_pow1 == << <<"p", "o", "w", "(", "1", ")">> >>
\* pow(1,2,3)
E_pow3 == << <<"p", "o", "w", "(", "1", ",", "2", ",", "3", ")">> >>
\* sin(1,2)
E_sin2 == << <<"s", "i", "n", "(", "1", ",", "2", ")">> >>
\* pow(2, -3)
E_pow_neg == << <<"p", "o", "w", "(", "2", ",", " ", "-", "3", ")">> >>
\* pow(2, 3)
E_pow2 == << <<"p", "o", "w", "(", "2", ",", " ", "3", ")">> >>
\* pow(sin(1,2))
E_pow_sin2 == << <<"p", "o", "w", "(", "s", "i", "n", "(", "1", ",", "2", ")", ")">> >>
\* 2 pow(3)
E_juxta == << <<"2", " ", "p", "o", "w", "(", "3", ")">> >>
\* x + y * 2
E_vars == << <<"x", " ", "+", " ", "y", " ", "*", " ", "2">> >>
\* a - (b + c) * d
E_group_mul ==
    << <<"a", " ", "-", " ", "(", "b", " ", "+", " ", "c", ")", " ", "*", " ", "d">> >>
\* a * (b + c) ^ d
E_group_pow ==
    << <<"a", " ", "*", " ", "(", "b", " ", "+", " ", "c", ")", " ", "^", " ", "d">> >>

\* a / -b
E_div_neg == << <<"a", " ", "/", " ", "-", "b">> >>
\* 2 ^ -3
E_pow_neg3 == << <<"2", " ", "^", " ", "-", "3">> >>

Examples ==
    { E_div_neg, E_pow_neg3, E_add_mul, E_pow_pow, E_neg_add, E_neg_sin, E_open,
      E_close, E_comma, E_pow1, E_pow3, E_sin2,
      E_pow_neg, E_pow2, E_pow_sin2, E_juxta, E_vars,
      E_group_mul, E_group_pow }

Inputs ==
    AlternatingInputs \cup GroupInputs \cup UnaryInputs \cup LexemeInputs \cup Examples

\* postfix sequences given to compile_RPN directly
RpnLexemes == { <<"x">>, <<"1">>, <<"+">>, L_sin, L_pow }
RpnInputs ==
    { [i \in 1..Len(q) |-> Token(q[i], BuiltinRegistry)] :
        q \in UNION { [1..m -> RpnLexemes] : m \in 1..MaxRpn } }

NoPlan == [ok |-> FALSE, crpn |-> <<>>, vars |-> {}, cnts |-> <<>>]

\* the table of a call: every variable of the plan is bound, to itself
PipeTable == [n \in comp.vars |-> [k |-> "var", name |-> n]]

\* make_rpn(formula), the first statement of parse
MakeRpn ==
    /\ stage = "input"
    /\ rpn' = make_rpn(Join(input), RESERVED_TOKEN)
    /\ stage' = "rpn"
    /\ UNCHANGED <<RESERVED_TOKEN, vars_handle, vars_calls, input, toks, comp, pc, stack>>

\* parse returns -EINVAL for the failure sentinel
RejectBad ==
    /\ stage = "rpn"
    /\ rpn = BAD_RPNs
    /\ stage' = "rejected"
    /\ UNCHANGED <<RESERVED_TOKEN, vars_handle, vars_calls, input, toks, rpn, comp, pc, stack>>

\* compile_RPN(rpn, vars)
Compile ==
    /\ stage = "rpn"
    /\ rpn # BAD_RPNs
    /\ comp' = compile_RPN(rpn)
    /\ stage' = IF comp'.ok THEN "compiled" ELSE "rejected"
    /\ UNCHANGED <<RESERVED_TOKEN, vars_handle, vars_calls, input, toks, rpn, pc, stack>>

\* one iteration of the loop of the function ret_func returns
Step ==
    /\ stage \in {"compiled", "running"}
    /\ pc < Len(comp.crpn)
    /\ \E r \in {Exec(comp.crpn[pc + 1], stack, PipeTable)} :
         /\ stack' = r.stack
         /\ stage' = IF r.status = "ok" THEN "running" ELSE "fault"
    /\ pc' = pc + 1
    /\ UNCHANGED <<RESERVED_TOKEN, vars_handle, vars_calls, input, toks, rpn, comp>>

\* return stack.front()
Return ==
    /\ stage \in {"compiled", "running"}
    /\ pc = Len(comp.crpn)
    /\ stage' = "done"
    /\ UNCHANGED <<RESERVED_TOKEN, vars_handle, vars_calls, input, toks, rpn, comp, pc, stack>>

InitPipe ==
    /\ RESERVED_TOKEN = BuiltinRegistry
    /\ formula = F_empty
    /\ table = EmptyTable
    /\ vars = {}
    /\ crpn = <<>>
    /\ closure = NoClosure
    /\ op = [name |-> "construct"]
    /\ ret = [kind |-> "void"]
    /\ comp = NoPlan
    /\ pc = 0
    /\ stack = <<>>
    /\ toks = <<>>
    /\ calls = NoCalls
    /\ \/ input \in Inputs /\ stage = "input" /\ rpn = <<>>
       \/ input = <<>> /\ stage = "rpn" /\ rpn \in RpnInputs

NextPipe ==
    \/ MakeRpn
    \/ RejectBad
    \/ Compile
    \/ Step
    \/ Return

SpecPipe == InitPipe /\ [][NextPipe]_vars_all

----------------------------------------------------------------------------
(* The pipeline with make_rpn in its two parts, devide_to_tokens and the     *)
(* token loop, on every short string of characters.                         *)

MaxChars == 3

Characters ==
    { "a", "1", "e", ".", " ", "\t", "+", "-", "*", "/", "^", "(", ")", "," }

\* every formula of at most MaxChars characters, as a single piece
CharInputs == [1..1 -> UNION { [1..n -> Characters] : n \in 0..MaxChars }]

\* every formula of at most MaxLiteral characters of a number, as a single
\* piece: 1e-2 and 2E+1 are among them
MaxLiteral == 4

LiteralChars == { "1", "2", "e", "E", ".", "+", "-" }

LiteralInputs ==
    [1..1 -> UNION { [1..n -> LiteralChars] : n \in 1..MaxLiteral }]

\* the first statement of make_rpn
Tokenize ==
    /\ stage = "input"
    /\ toks' = devide_to_tokens(Join(input), RESERVED_TOKEN)
    /\ stage' = "tokens"
    /\ UNCHANGED <<RESERVED_TOKEN, vars_handle, vars_calls, input, rpn, comp, pc, stack>>

\* the token loop of make_rpn and what follows it
ConvertTokens ==
    /\ stage = "tokens"
    /\ rpn' = Convert(toks, <<>>, <<>>, TRUE, RESERVED_TOKEN)
    /\ stage' = "rpn"
    /\ UNCHANGED <<RESERVED_TOKEN, vars_handle, vars_calls, input, toks, comp, pc, stack>>

InitTok ==
    /\ RESERVED_TOKEN = BuiltinRegistry
    /\ formula = F_empty
    /\ table = EmptyTable
    /\ vars = {}
    /\ crpn = <<>>
    /\ closure = NoClosure
    /\ op = [name |-> "construct"]
    /\ ret = [kind |-> "void"]
    /\ comp = NoPlan
    /\ pc = 0
    /\ stack = <<>>
    /\ toks = <<>>
    /\ rpn = <<>>
    /\ calls = NoCalls
    /\ input \in CharInputs \cup LiteralInputs
    /\ stage = "input"

NextTok ==
    \/ Tokenize
    \/ ConvertTokens
    \/ RejectBad
    \/ Compile
    \/ Step
    \/ Return

SpecTok == InitTok /\ [][NextTok]_vars_all

----------------------------------------------------------------------------
(* Properties of the handle *)

\* the variables a compiled plan reads
PlanVars(ops) == { ops[i].token.str : i \in { j \in 1..Len(ops) : ops[j].kind = "push_variable" } }

IsParse(o) == o.name \in {"parse", "parse_table"}

\* C1: a parse (either overload) that returns failure leaves the stored plan
\* and the stored source string as they were, and ret_func builds its function
\* from the stored plan.
C1_FailedParseKeepsPlan ==
    [][ /\ (IsParse(op') /\ Failed(ret')) => (crpn' = crpn /\ formula' = formula)
        /\ (op'.name = "ret_func" /\ ret'.kind = "function") =>
              (closure'.made /\ closure'.CRPN = crpn) ]_vars_all

\* a function was built from a plan that outlived a parse rejected by the
\* compile stage (the rejected formula's names are in vars)
C1_Witness ==
    /\ op.name = "ret_func"
    /\ ret.kind = "function"
    /\ formula = F_sum
    /\ vars = {"y"}
    /\ closure.CRPN = crpn
    /\ PlanVars(crpn) = {"x", "y"}

\* C2: a function ret_func returned has every variable of its plan in its
\* binding or as its free variable, and no call of it reaches a push-variable
\* operation of an unbound name.
C2_NoMissingVariable ==
    /\ closure.made =>
         ~Undetermined(PlanVars(closure.CRPN), closure.Table, closure.variable_string)
    /\ op.name = "call" => ret.kind # "throw"

\* C3: a parse that returns failure leaves the free-variable set as it was.
C3_FailedParseKeepsVars ==
    [][ (IsParse(op') /\ Failed(ret')) => vars' = vars ]_vars_all

\* C4: after add_custom_function the registry holds the entry just given,
\* also when the name was present before.
C4_RegisterOverwrites ==
    op.name = "add_custom_function" =>
        /\ op.entry.name \in DOMAIN RESERVED_TOKEN
        /\ RESERVED_TOKEN[op.entry.name].type = op.entry.type
        /\ RESERVED_TOKEN[op.entry.name].arg_num = op.entry.arg_num
        /\ RESERVED_TOKEN[op.entry.name].func = op.entry.lambda

\* the formula with every character g replaced by the name pow
RECURSIVE PowTwin(_)
PowTwin(cs) ==
    IF cs = <<>> THEN <<>>
    ELSE (IF Head(cs) = "g" THEN L_pow ELSE <<Head(cs)>>) \o PowTwin(Tail(cs))

\* a plan without the native behaviours, the name g read as pow
PlanShape(ops) ==
    [i \in 1..Len(ops) |->
        <<ops[i].kind, ops[i].token.type, ops[i].token.arg_num,
          IF ops[i].token.str = "g" THEN "pow" ELSE ops[i].token.str>>]

PlanStrs(ops) == [i \in 1..Len(ops) |-> ops[i].token.str]

CallsG(f) == f \in {F_g, F_nested}

\* C11: while the name g is not in the registry, a parse of a formula calling
\* g(a, b) fails; a registration of g as a two-argument function made while g
\* is absent puts that entry in the registry, and from then on the same parse
\* succeeds with the plan of the formula that calls pow instead, g standing
\* where pow stands, also nested in other calls and under operators.
C11_RegisterThenParse ==
    [][ /\ (IsParse(op') /\ CallsG(op'.f) /\ "g" \notin DOMAIN RESERVED_TOKEN) =>
              Failed(ret')
        /\ (op'.name = "add_custom_function" /\ op'.entry.type = "Func2"
              /\ op'.entry.name \notin DOMAIN RESERVED_TOKEN) =>
              /\ op'.entry.name \in DOMAIN RESERVED_TOKEN'
              /\ RESERVED_TOKEN'[op'.entry.name].type = "Func2"
              /\ RESERVED_TOKEN'[op'.entry.name].arg_num = 2
              /\ RESERVED_TOKEN'[op'.entry.name].func = op'.entry.lambda
        /\ (IsParse(op') /\ CallsG(op'.f) /\ "g" \in DOMAIN RESERVED_TOKEN
              /\ RESERVED_TOKEN["g"].type = "Func2") =>
              /\ ret' = Returned(0)
              /\ formula' = op'.f
              /\ \A twin \in {ParseState(PowTwin(op'.f), Handle, RESERVED_TOKEN)} :
                   twin.code = 0 /\ PlanShape(crpn') = PlanShape(twin.crpn)
              /\ op'.f = F_g => PlanStrs(crpn') = <<"x", "y", "g">>
              /\ op'.f = F_nested =>
                   PlanStrs(crpn') = <<"x", "y", "pow", "y", "x", "g", "g", "2", "*">>
      ]_vars_all

\* g(pow(x,y),g(y,x))*2 has been accepted with the registered g
C11_Witness ==
    /\ IsParse(op)
    /\ op.f = F_nested
    /\ ret = Returned(0)
    /\ formula = F_nested
    /\ RESERVED_TOKEN["g"].func = "user_g2"
    /\ crpn[6].kind = "apply" /\ crpn[6].token.func = "user_g2"

\* the lexemes of the tokens of ts that are classified Variable
VariableNames(ts) == { ts[i].str : i \in { j \in 1..Len(ts) : ts[j].type = "Variable" } }

\* C12: after a parse that returns success, vars is exactly the set of the
\* lexemes classified Variable in the formula just parsed, whatever their
\* order and number of occurrences and whatever vars held before; x + y * 2
\* gives {x, y}, and constants, functions and literals are not in it.
C12_VarsOfParsedFormula ==
    [][ (IsParse(op') /\ ~Failed(ret')) =>
          /\ formula' = op'.f
          /\ \A ts \in {devide_to_tokens(op'.f, RESERVED_TOKEN)} :
               /\ vars' = VariableNames(ts)
               /\ \A i \in 1..Len(ts) : ts[i].type # "Variable" => ts[i].str \notin vars'
          /\ op'.f = F_vars => vars' = {"x", "y"}
          /\ op'.f = F_mixed => vars' = {"x"}
          /\ op'.f = F_nested => vars' = {"x", "y"}
      ]_vars_all

\* x * pi + sin(x) has been parsed on a handle
C12_Witness ==
    /\ IsParse(op)
    /\ op.f = F_mixed
    /\ ret = Returned(0)
    /\ vars = {"x"}
    /\ PlanStrs(crpn) = <<"x", "pi", "*", "x", "sin", "+">>

\* the operations made on the handle or the registry, other than ret_func
ChangesHandle(o) == o.name \in {"parse", "parse_table", "regist", "add_custom_function"}

\* C13: a function ret_func returned keeps the binding and the plan it was
\* built from: a later regist, parse (succeeding or failing) or registration
\* leaves the function unchanged, and when it changed the handle's binding,
\* its plan or the registry, the outcome of calling the function is for every
\* argument what it was before; a call returns an outcome of the function as
\* it was built.
C13_ClosureOwnsCopies ==
    [][ /\ (closure.made /\ ChangesHandle(op')) =>
              /\ closure' = closure
              /\ (table' # table \/ crpn' # crpn \/ op'.name = "add_custom_function") =>
                   \A a \in Arguments :
                       CallOutcomes(closure, a)' = CallOutcomes(closure, a)
        /\ (closure.made /\ op'.name = "call") =>
              /\ closure' = closure
              /\ ret' \in UNION { CallOutcomes(closure, a) : a \in Arguments }
        /\ (op'.name = "ret_func" /\ ret'.kind = "function") =>
              (closure'.Table = table /\ closure'.CRPN = crpn)
      ]_vars_all

\* the function built from x + y with y = 1 was called with 2 after the handle
\* got another binding and another plan
C13_Witness ==
    /\ op.name = "call"
    /\ closure.made
    /\ closure.variable_string = "x"
    /\ closure.Table = ("y" :> One)
    /\ PlanStrs(closure.CRPN) = <<"x", "y", "+">>
    /\ table = ("x" :> One) @@ ("y" :> Two)
    /\ formula = F_x
    /\ ret = Value(Apply("add", <<Two, One>>))

\* C14: a parse(formula, table) that returns failure leaves the stored binding
\* as it was before the call.
C14_FailedParseKeepsTable ==
    [][ (op'.name = "parse_table" /\ Failed(ret')) => table' = table ]_vars_all

\* the formulas of the handle whose tokens all vanish in make_rpn
VanishingFormulas == { F_empty, F_blank, F_plus, F_unit }

\* C15: a parse of a formula whose postfix sequence is empty (the empty
\* string, white space only, a lone sign +, an empty pair of parentheses)
\* returns failure and leaves the stored plan and source string in place.
C15_EmptyPostfixRejected ==
    [][ IsParse(op') =>
          \A r \in {make_rpn(op'.f, RESERVED_TOKEN)} :
              /\ op'.f \in VanishingFormulas => r = <<>>
              /\ r = <<>> => (Failed(ret') /\ crpn' = crpn /\ formula' = formula)
      ]_vars_all

\* ( ) has been rejected on a handle that holds the plan of x + y
C15_Witness ==
    /\ IsParse(op)
    /\ op.f = F_unit
    /\ Failed(ret)
    /\ formula = F_sum
    /\ PlanStrs(crpn) = <<"x", "y", "+">>

\* C20: in every state of the handle (constructed with or without a formula
\* and a binding, before any parse or after failed parses only) a function
\* ret_func returns runs a plan of at least one operation, and a call of it
\* returns the one value left on its stack, never the front of an empty stack.
C20_FunctionHasPlan ==
    /\ closure.made => Len(closure.CRPN) >= 1
    /\ op.name = "call" => ret \notin Undefined

----------------------------------------------------------------------------
(* Properties of concurrent calls *)

\* caller t made the step
Moved(t) == calls'.th[t] # calls.th[t]

\* C16: a step of one call changes nothing but that call's own locals (not
\* the function, the handle, the registry or the other call), and a call that
\* ends, however its steps were interleaved with the other call and with the
\* use of the handle, ends with the one outcome the function has for its
\* argument when called alone (so calls with the same argument end alike).
C16_CallsIndependent ==
    [][ \A t \in Threads :
          /\ (Running(t) /\ Moved(t)) =>
                /\ calls'.fn = calls.fn
                /\ \A u \in Threads \ {t} : ~Moved(u)
                /\ UNCHANGED <<RESERVED_TOKEN, vars_handle>>
                /\ calls'.th[t].state = "running" =>
                       calls'.th[t].table = calls.th[t].table
          /\ (Running(t) /\ calls'.th[t].state = "returned") =>
                /\ calls'.th[t].arg = calls.th[t].arg
                /\ CallOutcomes(calls.fn, calls.th[t].arg) = {calls'.th[t].result}
      ]_vars_all

\* the fixed binding T with the variable v set to a
Binding(T, v, a) == (v :> a) @@ T

\* C22: a call with the argument a runs on the function's fixed binding with
\* the free variable set to a, also when the fixed binding has a value under
\* that name; no step of a call changes the function or its fixed binding,
\* so the next call starts from the same fixed binding; the call ends with
\* the outcome of the plan on that per-call binding, and when the plan does
\* not read the free variable this is the one outcome of every argument.
C22_PerCallBinding ==
    [][ \A t \in Threads :
          /\ (~Running(t) /\ calls'.th[t].state = "running") =>
                /\ calls'.fn = (IF \E u \in Threads : Running(u)
                                THEN calls.fn ELSE closure)
                /\ closure' = closure
                /\ calls'.th[t].table =
                       Binding(calls'.fn.Table, calls'.fn.variable_string,
                               calls'.th[t].arg)
          /\ (Running(t) /\ Moved(t)) =>
                /\ calls'.fn = calls.fn
                /\ closure' = closure
                /\ calls'.th[t].state = "running" =>
                       calls'.th[t].table = calls.th[t].table
          /\ (Running(t) /\ calls'.th[t].state = "returned") =>
                \A c \in {calls.fn} :
                    /\ calls'.th[t].result \in
                           Outcomes(RunFrom(c.CRPN, 1, <<>>,
                                            Binding(c.Table, c.variable_string,
                                                    calls.th[t].arg)))
                    /\ c.variable_string \notin PlanVars(c.CRPN) =>
                           \A b \in Arguments :
                               CallOutcomes(c, b) = {calls'.th[t].result}
      ]_vars_all

----------------------------------------------------------------------------
(* Properties of the pipeline *)

Strs(r) == [i \in 1..Len(r) |-> r[i].str]

\* the tokens of the formula of the pipeline
InputTokens == devide_to_tokens(Join(input), RESERVED_TOKEN)

PieceIsOperand(p) == Token(p, BuiltinRegistry).type \in {"Variable", "Constant", "Real"}

\* operand (binary-operator operand)*
IsAlternating(in) ==
    /\ Len(in) % 2 = 1
    /\ \A i \in 1..Len(in) :
         IF i % 2 = 1 THEN Len(in[i]) = 1 /\ PieceIsOperand(in[i]) ELSE in[i] \in BinOps

\* The operator at which a precedence parser splits pieces lo..hi of an
\* alternating sequence: the last + or -, else the last * or /, else the
\* first ^.
SplitAt(in, lo, hi) ==
    LET at(S) == { k \in lo..hi : k % 2 = 0 /\ in[k] \in S }
        Max(K) == CHOOSE k \in K : \A m \in K : m <= k
        Min(K) == CHOOSE k \in K : \A m \in K : k <= m
    IN  IF at({<<"+">>, <<"-">>}) # {} THEN Max(at({<<"+">>, <<"-">>}))
        ELSE IF at({<<"*">>, <<"/">>}) # {} THEN Max(at({<<"*">>, <<"/">>}))
        ELSE Min(at({<<"^">>}))

\* the postfix order of pieces lo..hi by that parser
RECURSIVE RefPostfix(_, _, _)
RefPostfix(in, lo, hi) ==
    IF lo >= hi THEN <<Str(in[lo])>>
    ELSE LET k == SplitAt(in, lo, hi) IN
         RefPostfix(in, lo, k - 1) \o RefPostfix(in, k + 1, hi) \o <<Str(in[k])>>

\* C5: for operands alternating with binary operators, make_rpn orders the
\* tokens as a precedence parser does (^ tightest and right-to-left, then * /,
\* then + -, both left-to-right); 3 + 4 * 2 gives 3 4 2 * + and 2 ^ 3 ^ 2
\* gives 2 3 2 ^ ^.
C5_PrecedenceOrder ==
    stage = "rpn" =>
        /\ IsAlternating(input) => Strs(rpn) = RefPostfix(input, 1, Len(input))
        /\ input = E_add_mul => Strs(rpn) = <<"3", "4", "2", "*", "+">>
        /\ input = E_pow_pow => Strs(rpn) = <<"2", "3", "2", "^", "^">>

\* a - b * c ^ d ^ ... has been converted
C5_Witness ==
    /\ stage = "rpn"
    /\ IsAlternating(input)
    /\ Len(input) = 7
    /\ <<input[2], input[4], input[6]>> = << <<"-">>, <<"^">>, <<"^">> >>
    /\ Strs(rpn) = <<"a", "b", "c", "d", "^", "^", "-">>

\* the postfix order of A o1 ( B o2 C ) o3 D when the group is an operand
RefGroup(in) ==
    LET outer == << <<"a">>, in[2], <<"G">>, in[8], <<"d">> >>
        flat  == RefPostfix(outer, 1, 5)
        RECURSIVE Expand(_)
        Expand(q) ==
            IF q = <<>> THEN <<>>
            ELSE IF Head(q) = "G" THEN <<"b", "c", Str(in[5])>> \o Expand(Tail(q))
            ELSE <<Head(q)>> \o Expand(Tail(q))
    IN  Expand(flat)

\* C6: at a right parenthesis only a function under the left parenthesis is
\* emitted; a binary operator under it stays on the stack, so the group keeps
\* normal precedence with what follows: a - (b + c) * d gives a b c + d * -
\* and a * (b + c) ^ d gives a b c + d ^ *.
C6_GroupKeepsPrecedence ==
    stage = "rpn" =>
        /\ input \in GroupInputs => Strs(rpn) = RefGroup(input)
        /\ input = E_group_mul => Strs(rpn) = <<"a", "b", "c", "+", "d", "*", "-">>
        /\ input = E_group_pow => Strs(rpn) = <<"a", "b", "c", "+", "d", "^", "*">>

\* the positions at which the claim takes a + or - as a sign
SignPosition(ts, i) ==
    /\ ts[i].str \in {"+", "-"}
    /\ i = 1 \/ ts[i - 1].type \in {"LParen", "Comma", "Operator"}

Count(r, str) == Cardinality({ i \in 1..Len(r) : r[i].str = str })

\* C7: a + or - is a sign exactly at the start, after a left parenthesis,
\* after a comma or after an operator; a sign + is dropped, a sign - emits -1
\* and becomes *; pow(2, -3) is accepted with the postfix 2 -1 3 * pow.
C7_UnarySign ==
    /\ (stage = "rpn" /\ rpn # BAD_RPNs /\ input # <<>>) =>
         LET ts == InputTokens
             signs(c)   == { i \in 1..Len(ts) : ts[i].str = c /\ SignPosition(ts, i) }
             binary(c)  == { i \in 1..Len(ts) : ts[i].str = c /\ ~SignPosition(ts, i) }
         IN  /\ Count(rpn, "-1") = Cardinality(signs("-"))
             /\ Count(rpn, "-") = Cardinality(binary("-"))
             /\ Count(rpn, "+") = Cardinality(binary("+"))
    /\ (stage = "rpn" /\ input = E_pow_neg) =>
         Strs(rpn) = <<"2", "-1", "3", "*", "pow">>
    /\ input = E_pow_neg => stage # "rejected"

\* the parenthesis errors of a token sequence: a ) or a , met at depth 0, or
\* a depth above 0 at the end
RECURSIVE ParenError(_, _, _)
ParenError(ts, i, depth) ==
    IF i > Len(ts) THEN depth > 0
    ELSE IF ts[i].type = "LParen" THEN ParenError(ts, i + 1, depth + 1)
    ELSE IF ts[i].type = "RParen" THEN depth = 0 \/ ParenError(ts, i + 1, depth - 1)
    ELSE IF ts[i].type = "Comma" THEN depth = 0 \/ ParenError(ts, i + 1, depth)
    ELSE ParenError(ts, i + 1, depth)

\* C8: when a ) or a , is met with no ( open, or a ( is open at the end,
\* make_rpn returns the failure sentinel and parse returns a negative result.
C8_ParenErrorsRejected ==
    (input # <<>> /\ stage # "input" /\ ParenError(InputTokens, 1, 0)) =>
        /\ rpn = BAD_RPNs
        /\ stage \in {"rpn", "rejected"}
        /\ ParseState(Join(input), Handle, RESERVED_TOKEN).code < 0

\* ( 1 + 2 has been rejected
C8_Witness ==
    /\ stage = "rejected"
    /\ input = E_open
    /\ rpn = BAD_RPNs

\* the index of the ) that closes the ( at i (0: none), from j at depth d
RECURSIVE Closing(_, _, _)
Closing(ts, j, d) ==
    IF j > Len(ts) THEN 0
    ELSE IF ts[j].type = "LParen" THEN Closing(ts, j + 1, d + 1)
    ELSE IF ts[j].type = "RParen"
         THEN IF d = 1 THEN j ELSE Closing(ts, j + 1, d - 1)
    ELSE Closing(ts, j + 1, d)

\* the depth of token j inside the parenthesis opened at i
Depth(ts, i, j) ==
    Cardinality({ m \in i..(j - 1) : ts[m].type = "LParen" })
      - Cardinality({ m \in i..(j - 1) : ts[m].type = "RParen" })

\* the number of arguments between the ( at i and its ) at c
ArgCount(ts, i, c) ==
    IF c = i + 1 THEN 0
    ELSE 1 + Cardinality({ j \in (i + 1)..(c - 1) :
                             ts[j].type = "Comma" /\ Depth(ts, i, j) = 1 })

\* some call f( ... ) of the token sequence has not arg_num arguments
ArityMismatch(ts) ==
    \E i \in 1..(Len(ts) - 1) :
        /\ ts[i].type \in {"Func1", "Func2", "Func3"}
        /\ ts[i + 1].type = "LParen"
        /\ Closing(ts, i + 2, 1) # 0
        /\ ArgCount(ts, i + 1, Closing(ts, i + 2, 1)) # ts[i].arg_num

\* C9: parse rejects every formula in which some call has a number of
\* arguments other than the arity of its function, whatever surrounds it.
C9_ArityMismatchRejected ==
    (input # <<>> /\ stage \notin {"input", "rpn"} /\ ArityMismatch(InputTokens)) =>
        stage = "rejected"

\* C10: running an accepted plan keeps the depth of the stack equal to the
\* counter of compile_RPN after each operation: no apply finds fewer values
\* than its arity, and exactly one value is on the stack at the end.
C10_StackDepth ==
    /\ stage # "fault"
    /\ (stage \in {"running", "done"} /\ pc >= 1) => Len(stack) = comp.cnts[pc]
    /\ (stage \in {"compiled", "running"} /\ pc < Len(comp.crpn)
          /\ comp.crpn[pc + 1].kind = "apply") =>
         Len(stack) >= comp.crpn[pc + 1].token.arg_num
    /\ stage = "done" => (pc = Len(comp.crpn) /\ Len(stack) = 1)

\* 3 + 4 * 2 has been run to its end
C10_Witness ==
    /\ stage = "done"
    /\ input = E_add_mul
    /\ pc = 5
    /\ stack = <<Apply("add", <<Num(3, 0), Apply("mul", <<Num(4, 0), Num(2, 0)>>)>>)>>

----------------------------------------------------------------------------
(* Properties of the evaluation *)

\* the value the table of the pipeline binds to the variable n
Var(n) == [k |-> "var", name |-> n]

\* the native behaviour of a binary operator
NativeOf(o) ==
    CASE o = <<"+">> -> "add" [] o = <<"-">> -> "sub" [] o = <<"*">> -> "mul"
      [] o = <<"/">> -> "div" [] o = <<"^">> -> "powop"

\* C18: an apply operation of arity k takes the k values on top of the stack
\* off it, calls the native behaviour with them in the order they were pushed
\* (the deepest first) and pushes the one result, leaving the values below as
\* they were; so a - b, a / b, a ^ b and pow(a, b) call the behaviour with a
\* as the first argument.
C18_ApplyOrder ==
    [][ /\ (stage \in {"compiled", "running"} /\ pc' = pc + 1
              /\ comp.crpn[pc + 1].kind = "apply") =>
              \A k \in {comp.crpn[pc + 1].token.arg_num} :
                  /\ stage' = "running"
                  /\ Len(stack') = Len(stack) - k + 1
                  /\ \A i \in 1..(Len(stack) - k) : stack'[i] = stack[i]
                  /\ Back(stack').k = "app"
                  /\ Back(stack').f = comp.crpn[pc + 1].token.func
                  /\ Len(Back(stack').args) = k
                  /\ \A j \in 1..k : Back(stack').args[j] = stack[Len(stack) - k + j]
        /\ (stage' = "done" /\ Len(input) = 3 /\ input[1] = <<"a">>
              /\ input[2] \in BinOps /\ input[3] = <<"b">>) =>
              stack' = <<Apply(NativeOf(input[2]), <<Var("a"), Var("b")>>)>>
        /\ (stage' = "done" /\ input = E_pow2) =>
              stack' = <<Apply("pow", <<Num(2, 0), Num(3, 0)>>)>>
      ]_vars_all

\* in a - b * c the product has been applied above the value of a
C18_Witness ==
    /\ stage = "running"
    /\ IsAlternating(input)
    /\ Len(input) = 5
    /\ <<input[2], input[4]>> = << <<"-">>, <<"*">> >>
    /\ pc = 4
    /\ stack = <<Var("a"), Apply("mul", <<Var("b"), Var("c")>>)>>

MinusOne == Num(-1, 0)

\* the values of A op (-1 * B); for * the product (A * -1) * B is the same
\* value
NegatedOperand(o, A, B) ==
    { Apply(NativeOf(o), <<A, Apply("mul", <<MinusOne, B>>)>>) }
      \cup (IF o = <<"*">> THEN { Apply("mul", <<Apply("mul", <<A, MinusOne>>), B>>) }
            ELSE {})

\* C19: for each binary operator op, A op - B is converted to a postfix
\* sequence that computes A op (-1 * B): the sign is applied to B before op
\* is applied; a / -b is a / (-1 * b) and 2 ^ -3 is 2 ^ (-1 * 3).
C19_UnaryMinusBindsFirst ==
    /\ (input \in UnaryInputs /\ stage = "done") =>
          stack \in { <<v>> : v \in NegatedOperand(input[2], Var("a"), Var("b")) }
    /\ (input = E_div_neg /\ stage = "done") =>
          stack = <<Apply("div", <<Var("a"), Apply("mul", <<MinusOne, Var("b")>>)>>)>>
    /\ (input = E_pow_neg3 /\ stage = "done") =>
          stack = <<Apply("powop", <<Num(2, 0), Apply("mul", <<MinusOne, Num(3, 0)>>)>>)>>
    /\ input \in UnaryInputs \cup {E_div_neg, E_pow_neg3} => stage # "rejected"

----------------------------------------------------------------------------
(* Properties of the tokenizer *)

OperatorChars == { "+", "-", "*", "/", "^", "(", ")", "," }

\* The pieces of f by the rule of the claim: white space separates and is
\* dropped, each of + - * / ^ ( ) , is a piece of its own, every other
\* character extends the piece cur.
RECURSIVE RefSplit(_, _, _)
RefSplit(f, i, cur) ==
    LET flushed == IF cur = <<>> THEN <<>> ELSE <<cur>> IN
    IF i > Len(f) THEN flushed
    ELSE IF IsSpace(f[i]) THEN flushed \o RefSplit(f, i + 1, <<>>)
    ELSE IF f[i] \in OperatorChars THEN flushed \o << <<f[i]>> >> \o RefSplit(f, i + 1, <<>>)
    ELSE RefSplit(f, i + 1, Append(cur, f[i]))

RECURSIVE Flatten(_)
Flatten(ps) == IF ps = <<>> THEN <<>> ELSE Head(ps) \o Flatten(Tail(ps))

NoSpace(f) == SelectSeq(f, LAMBDA c : ~IsSpace(c))

\* C17: the token strings of devide_to_tokens are, in order, the pieces of
\* the formula: concatenated they are the formula without its white space,
\* none is empty or holds white space, each of + - * / ^ ( ) , is a token of
\* its own and in no longer token, and an empty or all-space formula has no
\* tokens.
C17_TokensPartitionFormula ==
    stage = "tokens" =>
        \A ps \in {RefSplit(Join(input), 1, <<>>)} :
            /\ Strs(toks) = [i \in 1..Len(ps) |-> Str(ps[i])]
            /\ Flatten(ps) = NoSpace(Join(input))
            /\ \A i \in 1..Len(ps) :
                 /\ ps[i] # <<>>
                 /\ \A j \in 1..Len(ps[i]) :
                      /\ ~IsSpace(ps[i][j])
                      /\ ps[i][j] \in OperatorChars => Len(ps[i]) = 1
            /\ \A c \in OperatorChars :
                 Count(toks, c) = Cardinality({ i \in 1..Len(Join(input)) : Join(input)[i] = c })
            /\ NoSpace(Join(input)) = <<>> => toks = <<>>

\* 1e- has been split into 1e and -
C17_Witness ==
    /\ stage = "tokens"
    /\ input = << <<"1", "e", "-">> >>
    /\ Strs(toks) = <<"1e", "-">>

\* digits, optional fractional part, optional exponent with optional sign
RealLiteral(cs) == cs # <<>> /\ IsDigit(cs[1]) /\ is_real(cs)

\* f[i..j] stands between white space, punctuation or the ends of f
Delimited(f, i, j) ==
    /\ i = 1 \/ IsSpace(f[i - 1]) \/ f[i - 1] \in OperatorChars
    /\ j = Len(f) \/ IsSpace(f[j + 1]) \/ f[j + 1] \in OperatorChars

\* the real-number literals of f: the delimited pieces that match the
\* pattern and lie in no longer such piece
Literals(f) ==
    LET matches == { p \in (1..Len(f)) \X (1..Len(f)) :
                       /\ p[1] <= p[2]
                       /\ Delimited(f, p[1], p[2])
                       /\ RealLiteral(SubSeq(f, p[1], p[2])) }
    IN  { p \in matches :
            \A q \in matches : (q[1] <= p[1] /\ p[2] <= q[2]) => q = p }

\* the number of literals of f that read as the characters cs
LiteralCount(f, cs) ==
    Cardinality({ p \in Literals(f) : SubSeq(f, p[1], p[2]) = cs })

\* C21: every real-number literal of the formula (digits, optional
\* fractional part, optional exponent with optional sign, between white
\* space, punctuation or the ends of the formula) is one token of
\* devide_to_tokens, of type Real and with the value the literal writes, as
\* often as it occurs; a literal with a signed exponent such as 1e-2 or 2E+1
\* is therefore not split at the sign.
C21_RealLiteralIsOneToken ==
    stage = "tokens" =>
        \A f \in {Join(input)} :
            \A p \in Literals(f) :
                \A cs \in {SubSeq(f, p[1], p[2])} :
                    Cardinality({ i \in 1..Len(toks) :
                                    /\ toks[i].str = Str(cs)
                                    /\ toks[i].type = "Real"
                                    /\ toks[i].value = from_chars(cs) })
                      >= LiteralCount(f, cs)

=============================================================================
